---- MODULE Spec2Model ----
(***************************************************************************)
(* A model of the Paracletic chaos generator (src/chaos.py): the class     *)
(* ParacleticChaosRNG (constructor, _step, _vector_to_bytes, random_bytes),*)
(* the transform pipeline it drives, and selftest.                         *)
(*                                                                         *)
(* Representation.                                                         *)
(*  - A byte string is a sequence of integers in 0..255.                   *)
(*  - A double is a fixed-point integer: the value v stands for v / Scale, *)
(*    and every arithmetic operation rounds its result down to a multiple  *)
(*    of 1 / Scale.  EPS (1e-12) is below that resolution, so "s < EPS"    *)
(*    is "s < 1" on these integers.  Signed zero is not distinguished.     *)
(*  - hashlib.sha256 / hashlib.sha512 are deterministic functions from a   *)
(*    byte string to a digest of 32 / 64 bytes: the input is absorbed in   *)
(*    order into an accumulator modulo HashMod and the digest bytes are    *)
(*    derived from the accumulator.  Collisions exist, as for any hash     *)
(*    with a finite range; nothing below assumes there are none.           *)
(***************************************************************************)
EXTENDS Integers, Sequences, FiniteSets, TLC

\* ------------------------------------------------------------------ bounds
\* Resolution of the fixed-point doubles.
Scale == 10000
\* Range of the hash accumulator.
HashMod == 1000003
\* Calls of random_bytes made on one instance.
MaxCalls == 2
\* Blocks one instance emits over its lifetime.
MaxBlocks == 2

\* ------------------------------------------------------- program constants
N_DIM == 12
DIGEST256 == 32
DIGEST512 == 64
CTR_LEN == 16
SEED_MIN == 32

Dims == 0 .. (N_DIM - 1)

\* ------------------------------------------------------------- byte strings
Byte == 0 .. 255

Min(a, b) == IF a < b THEN a ELSE b

Rep(len, b) == [i \in 1 .. len |-> b]

\* data[lo:hi] of Python, 0-based, hi exclusive, clipped to the data.
Slice(data, lo, hi) ==
    LET l == Min(lo, Len(data))
        h == Min(hi, Len(data))
    IN  IF h <= l THEN <<>> ELSE SubSeq(data, l + 1, h)

\* int.to_bytes(len, "big", signed=False) for 0 <= v < 2^31.
ToBytes(v, len) ==
    [i \in 1 .. len |->
        IF len - i >= 4 THEN 0
        ELSE (v \div (IF len - i = 3 THEN 16777216
                      ELSE IF len - i = 2 THEN 65536
                      ELSE IF len - i = 1 THEN 256 ELSE 1)) % 256]

\* ------------------------------------------------------------------ hashes
\* The bytes from data[i] on absorbed into the accumulator h, three at a time,
\* a group running past the end of data being filled with zeros.
RECURSIVE Absorb(_, _, _)
Absorb(data, i, h) ==
    IF i > Len(data) THEN h
    ELSE LET b1 == data[i]
             b2 == IF i + 1 <= Len(data) THEN data[i + 1] ELSE 0
             b3 == IF i + 2 <= Len(data) THEN data[i + 2] ELSE 0
             h2 == (h * 31 + b1 * 65536 + b2 * 256 + b3 + 1) % HashMod
         IN  IF h2 >= 0 THEN Absorb(data, i + 3, h2) ELSE h2

Squeeze(h, len) ==
    [i \in 1 .. len |->
        LET x == (h * (i + 1) + i * i) % HashMod
        IN  (x \div 256 + x) % 256]

\* The accumulator starts from the digest size and the length of the input.
sha256(data) == Squeeze(Absorb(data, 1, 256 + Len(data)), DIGEST256)

sha512(data) == Squeeze(Absorb(data, 1, 512 + Len(data)), DIGEST512)

\* b"|key" and b"|init"
TAG_KEY == <<124, 107, 101, 121>>
TAG_INIT == <<124, 105, 110, 105, 116>>

\* ----------------------------------------------------- fixed-point doubles
Abs(v) == IF v < 0 THEN 0 - v ELSE v

RECURSIVE SumTo(_, _)
SumTo(x, i) == IF i < 0 THEN 0 ELSE x[i] + SumTo(x, i - 1)

\* np.sum(x)
Sum(x) == SumTo(x, N_DIM - 1)

\* np.abs(x)
VAbs(x) == [i \in Dims |-> Abs(x[i])]

\* s < EPS, for s a sum of absolute values
BelowEps(s) == s < 1

Null_point == 0

InverseZero_operator(p) == IF p = 0 THEN 0 ELSE 0

H_inverse_zero_null == Scale

\* np.tanh on [-1, 1], by the rational approximation x (15 + x^2) / (15 + 6 x^2).
Tanh(v) ==
    LET v2 == (v * v) \div Scale
    IN  (v * (15 * Scale + v2)) \div (15 * Scale + 6 * v2)

\* ------------------------------------------------------ transform pipeline
f_truth(x) == x

f_purity(x) ==
    LET abs_x == VAbs(x)
        s == Sum(abs_x)
    IN  IF BelowEps(s) THEN [i \in Dims |-> Null_point]
        ELSE [i \in Dims |-> (abs_x[i] * Scale) \div s]

f_law(x) ==
    [i \in Dims |-> IF x[i] < 0 - Scale THEN 0 - Scale
                    ELSE IF x[i] > Scale THEN Scale ELSE x[i]]

f_love(x) ==
    LET mean == Sum(x) \div N_DIM
        result == [i \in Dims |-> (x[i] + mean) \div 2]
    IN  [i \in Dims |-> IF BelowEps(Abs(result[i]))
                        THEN InverseZero_operator(0) ELSE result[i]]

f_wisdom(x) ==
    LET left == [i \in Dims |-> x[(i + N_DIM - 1) % N_DIM]]
        right == [i \in Dims |-> x[(i + 1) % N_DIM]]
    IN  [i \in Dims |-> (x[i] + (left[i] + right[i]) \div 2) \div 2]

f_life(x) ==
    LET zeta == H_inverse_zero_null
    IN  [i \in Dims |-> (Tanh(x[i]) * zeta) \div Scale]

f_glory(x) ==
    LET v == [i \in Dims |-> IF x[i] >= 0 THEN (x[i] * x[i]) \div Scale
                             ELSE 0 - ((x[i] * x[i]) \div Scale)]
        s == Sum(VAbs(v))
    IN  IF BelowEps(s) THEN [i \in Dims |-> Null_point]
        ELSE [i \in Dims |-> (v[i] * Scale) \div s]

\* (mutation) Law applied before Purity
PRINCIPLES_Swapped == <<"Truth", "Law", "Purity", "Love", "Wisdom", "Life", "Glory">>

PRINCIPLES == <<"Truth", "Purity", "Law", "Love", "Wisdom", "Life", "Glory">>

apply_principle(name, x) ==
    CASE name = "Truth" -> f_truth(x)
      [] name = "Purity" -> f_purity(x)
      [] name = "Law" -> f_law(x)
      [] name = "Love" -> f_love(x)
      [] name = "Wisdom" -> f_wisdom(x)
      [] name = "Life" -> f_life(x)
      [] name = "Glory" -> f_glory(x)

\* x * enabled
Masked(x, enabled) == [i \in Dims |-> (x[i] * enabled[i]) \div Scale]

\* ------------------------------------------------- hash digest to a vector
\* noise_src[(i * 4) % len : (i * 4) % len + 4], refilled from the start of the
\* digest when the slice comes out short.
Chunk(src, i) ==
    LET lo == (i * 4) % Len(src)
        chunk == Slice(src, lo, lo + 4)
    IN  IF Len(chunk) < 4 THEN Slice(chunk \o src, 0, 4) ELSE chunk

\* ((v / 2**32) * 2.0) - 1.0 for v = int.from_bytes(chunk, "big"): the quotient
\* is taken on the two 16-bit halves of v, which gives floor(v * 2 Scale / 2^32).
Unit(chunk) ==
    LET hi == chunk[1] * 256 + chunk[2]
        lo == chunk[3] * 256 + chunk[4]
    IN  ((hi * 2 * Scale + (lo * 2 * Scale) \div 65536) \div 65536) - Scale

Vals(src) == [i \in Dims |-> Unit(Chunk(src, i))]

\* struct.pack("!d", v): 8 bytes, big-endian, sign in the top bit.
Pack(v) == <<IF v < 0 THEN 128 ELSE 0>> \o ToBytes(Abs(v), 7)

RECURSIVE PackFrom(_, _)
PackFrom(x, i) == IF i >= N_DIM THEN <<>> ELSE Pack(x[i]) \o PackFrom(x, i + 1)

\* _vector_to_bytes
VectorToBytes(x) == PackFrom(x, 0)

\* ------------------------------------------------------------ construction
\* seed_bytes is None
None == <<-1>>

\* What the operating system would hand out at the time of a construction:
\* os.urandom(32), secrets.token_bytes(32), time.time_ns(), os.getpid().
Envs ==
    { [urandom |-> Rep(32, 17), token |-> Rep(32, 90), time_ns |-> 1000, pid |-> 41],
      [urandom |-> Rep(32, 203), token |-> Rep(32, 90), time_ns |-> 1001, pid |-> 41] }

\* The explicit seeds tried: empty, short, the digest of the short one, exactly
\* 32 bytes, longer than 32 bytes.
ShortSeed == <<115, 101, 101, 100>>

SeedInputs ==
    { <<>>, ShortSeed, sha256(ShortSeed), Rep(32, 1), Rep(40, 5) }

\* The sources __init__ reads when it is given no seed.
EntropySources == <<"os.urandom", "secrets.token_bytes", "time.time_ns", "os.getpid">>

\* (mutation) a seed of exactly 32 bytes hashed like a shorter one
SeedMaterialLe(seed_bytes, env) ==
    IF seed_bytes = None
    THEN env.urandom \o env.token \o ToBytes(env.time_ns, 8) \o ToBytes(env.pid, 4)
    ELSE IF Len(seed_bytes) <= SEED_MIN THEN sha256(seed_bytes) ELSE seed_bytes

\* (mutation) the timestamp mixed into the seed material of an explicit seed
SeedMaterialClock(seed_bytes, env) ==
    IF seed_bytes = None
    THEN env.urandom \o env.token \o ToBytes(env.time_ns, 8) \o ToBytes(env.pid, 4)
    ELSE (IF Len(seed_bytes) < SEED_MIN THEN sha256(seed_bytes) ELSE seed_bytes)
            \o ToBytes(env.time_ns, 8)

\* (mutation) every explicit seed hashed, whatever its length
SeedMaterialHashed(seed_bytes, env) ==
    IF seed_bytes = None
    THEN env.urandom \o env.token \o ToBytes(env.time_ns, 8) \o ToBytes(env.pid, 4)
    ELSE sha256(seed_bytes)

\* __init__, lines 84-95
SeedMaterial(seed_bytes, env) ==
    IF seed_bytes = None
    THEN env.urandom \o env.token \o ToBytes(env.time_ns, 8) \o ToBytes(env.pid, 4)
    ELSE IF Len(seed_bytes) < SEED_MIN THEN sha256(seed_bytes) ELSE seed_bytes

EntropyReads(seed_bytes) == IF seed_bytes = None THEN EntropySources ELSE <<>>

InitialState(seed_material) ==
    LET base_vec == [i \in Dims |-> Scale \div N_DIM]
        noise_src == sha512(seed_material \o TAG_INIT)
        vals == Vals(noise_src)
        noise_vec == [i \in Dims |-> vals[i] \div 1000]
    IN  [i \in Dims |-> base_vec[i] + noise_vec[i]]

EnabledMask == [i \in Dims |-> IF i \in {0, 4, 7} THEN Scale ELSE 0]

ZeroVec == [i \in Dims |-> 0]

\* The instance (key, state, enabled, counter), the position of the call in
\* progress (pc) with the locals of random_bytes, _step and step_vector, and what
\* is kept of the past: the constructor's argument and seed material, the
\* entropy sources it read, the counter at the start of the call (ctr0), the
\* instance as _step found it (pre), the transforms applied by the step_vector
\* call in progress (applied), one entry per completed _step and per emitted
\* block of the current call (trace), and one entry per returned call (hist).
NewRng(seed_bytes, env) ==
    LET seed_material == SeedMaterial(seed_bytes, env)
    IN  [ key |-> sha256(seed_material \o TAG_KEY),
          state |-> InitialState(seed_material),
          enabled |-> EnabledMask,
          counter |-> 0,
          pc |-> "idle",
          seed_bytes |-> seed_bytes,
          seed_material |-> seed_material,
          reads |-> EntropyReads(seed_bytes),
          calls |-> 0,
          n |-> 0, out |-> <<>>, k |-> 0, block |-> <<>>, result |-> <<>>,
          x_masked |-> ZeroVec, pi |-> 0, applied |-> <<>>,
          ctr_bytes |-> <<>>, mix |-> <<>>, jitter |-> ZeroVec, norm |-> 0,
          state_bytes |-> <<>>,
          ctr0 |-> 0,
          pre |-> [key |-> <<>>, state |-> ZeroVec, counter |-> 0],
          trace |-> <<>>,
          hist |-> <<>> ]

Unborn == [NewRng(<<>>, CHOOSE e \in Envs : TRUE) EXCEPT
              !.pc = "new", !.key = <<>>, !.state = ZeroVec, !.enabled = ZeroVec,
              !.seed_material = <<>>]

Snapshot(r, kind) ==
    [kind |-> kind, key |-> r.key, state |-> r.state, counter |-> r.counter]

\* ------------------------------------------------------------ random_bytes
\* (mutation) one advance step fewer before each block
DilutionShort == 5 - 1

\* range(5), line 140
Dilution == 5

\* (mutation) one more block when the accumulated output is exactly n bytes
LoopCondLe(out, n) == Len(out) <= n

\* len(out) < n, line 139
LoopCond(out, n) == Len(out) < n

\* (mutation) the accumulated blocks returned whole
TruncateNone(out, n) == out

\* out[:n], line 146
Truncate(out, n) == Slice(out, 0, n)

\* the call random_bytes(n)
Enter(r, n) ==
    [r EXCEPT !.pc = "rb_out", !.n = n, !.calls = @ + 1, !.result = <<>>,
              !.ctr0 = r.counter, !.trace = <<>>]

\* line 138
rb_out(r) == [r EXCEPT !.out = <<>>, !.pc = "rb_while"]

\* line 139
rb_while(r) ==
    IF LoopCond(r.out, r.n)
    THEN [r EXCEPT !.k = 0, !.pc = "rb_for"]
    ELSE [r EXCEPT !.pc = "rb_ret"]

\* lines 140-141: the next iteration calls _step
rb_for(r) ==
    IF r.k < Dilution
    THEN [r EXCEPT !.k = @ + 1, !.pc = "sv_mask",
                   !.pre = [key |-> r.key, state |-> r.state, counter |-> r.counter]]
    ELSE [r EXCEPT !.pc = "rb_ctr"]

\* line 142
rb_ctr(r) == [r EXCEPT !.ctr_bytes = ToBytes(r.counter, CTR_LEN), !.pc = "rb_blk"]

\* line 143
rb_blk(r) ==
    [r EXCEPT !.block = sha256(VectorToBytes(r.state) \o r.key \o r.ctr_bytes),
              !.pc = "rb_app"]

\* line 144
rb_app(r) == [r EXCEPT !.out = @ \o r.block, !.pc = "rb_inc"]

\* (mutation) a block emitted without the counter moving
rb_inc_skip(r) ==
    [r EXCEPT !.trace = Append(@, Snapshot(r, "block")), !.pc = "rb_while"]

\* line 145
rb_inc(r) ==
    LET r2 == [r EXCEPT !.counter = @ + 1]
    IN  [r2 EXCEPT !.trace = Append(@, Snapshot(r2, "block")), !.pc = "rb_while"]

\* line 146
rb_ret(r) ==
    LET result == Truncate(r.out, r.n)
    IN  [r EXCEPT !.result = result, !.pc = "idle",
                  !.hist = Append(@, [n |-> r.n, result |-> result, trace |-> r.trace])]

\* ------------------------------------------------------------- step_vector
\* line 77
sv_mask(r) ==
    [r EXCEPT !.x_masked = Masked(r.state, r.enabled), !.pi = 0, !.applied = <<>>,
              !.pc = "sv_for"]

\* lines 78-80, and the assignment of the result in line 112
sv_for(r) ==
    IF r.pi < Len(PRINCIPLES)
    THEN LET name == PRINCIPLES[r.pi + 1]
         IN  [r EXCEPT !.x_masked = apply_principle(name, r.x_masked),
                       !.applied = Append(@, name), !.pi = @ + 1]
    ELSE [r EXCEPT !.state = r.x_masked, !.pc = "st_ctr"]

\* ------------------------------------------------------------------- _step
\* line 113
st_ctr(r) == [r EXCEPT !.ctr_bytes = ToBytes(r.counter, CTR_LEN), !.pc = "st_mix"]

\* line 114
st_mix(r) == [r EXCEPT !.mix = sha512(r.key \o r.ctr_bytes), !.pc = "st_jit"]

\* lines 115-122
Jitter(mix) ==
    LET vals == Vals(mix)
    IN  [i \in Dims |-> vals[i] \div 1000000000]

st_jit(r) == [r EXCEPT !.jitter = Jitter(r.mix), !.pc = "st_add"]

\* line 123
st_add(r) ==
    [r EXCEPT !.state = [i \in Dims |-> r.state[i] + r.jitter[i]], !.pc = "st_norm"]

\* lines 124-126
Renorm(x, norm) ==
    IF ~BelowEps(norm) THEN [i \in Dims |-> (x[i] * Scale) \div norm] ELSE x

st_norm(r) ==
    LET norm == Sum(VAbs(r.state))
    IN  [r EXCEPT !.norm = norm, !.state = Renorm(r.state, norm), !.pc = "st_ser"]

\* line 127
st_ser(r) == [r EXCEPT !.state_bytes = VectorToBytes(r.state), !.pc = "st_key"]

\* (mutation) the key derived after the counter has moved
st_key_late(r) ==
    [r EXCEPT !.key = sha256(r.key \o r.state_bytes \o ToBytes(r.counter + 1, CTR_LEN)),
              !.pc = "st_inc"]

\* line 128
st_key(r) ==
    [r EXCEPT !.key = sha256(r.key \o r.state_bytes \o r.ctr_bytes), !.pc = "st_inc"]

\* line 129, and the return to the loop of random_bytes
st_inc(r) ==
    LET r2 == [r EXCEPT !.counter = @ + 1]
    IN  [r2 EXCEPT !.trace = Append(@, Snapshot(r2, "step")), !.pc = "rb_for"]

\* One statement of the call in progress.
Micro(r) ==
    CASE r.pc = "rb_out" -> rb_out(r)
      [] r.pc = "rb_while" -> rb_while(r)
      [] r.pc = "rb_for" -> rb_for(r)
      [] r.pc = "sv_mask" -> sv_mask(r)
      [] r.pc = "sv_for" -> sv_for(r)
      [] r.pc = "st_ctr" -> st_ctr(r)
      [] r.pc = "st_mix" -> st_mix(r)
      [] r.pc = "st_jit" -> st_jit(r)
      [] r.pc = "st_add" -> st_add(r)
      [] r.pc = "st_norm" -> st_norm(r)
      [] r.pc = "st_ser" -> st_ser(r)
      [] r.pc = "st_key" -> st_key(r)
      [] r.pc = "st_inc" -> st_inc(r)
      [] r.pc = "rb_ctr" -> rb_ctr(r)
      [] r.pc = "rb_blk" -> rb_blk(r)
      [] r.pc = "rb_app" -> rb_app(r)
      [] r.pc = "rb_inc" -> rb_inc(r)
      [] r.pc = "rb_ret" -> rb_ret(r)

\* Up to 2^k statements of the call in progress, stopping at its return.
RECURSIVE Iterate(_, _)
Iterate(r, k) ==
    IF r.pc = "idle" THEN r
    ELSE IF k = 0 THEN Micro(r)
    ELSE Iterate(Iterate(r, k - 1), k - 1)

\* The call in progress run to its return (2^12 statements are more than the
\* requests made here take).
Run(r) == Iterate(r, 12)

\* random_bytes(n) from call to return
RandomBytes(r, n) == Run(Enter(r, n))

\* ------------------------------------------------------------ the requests
BlocksFor(n) == (n + DIGEST256 - 1) \div DIGEST256

ReqLens ==
    { b * DIGEST256 + d : b \in 0 .. (MaxBlocks - 1), d \in {0, 1, DIGEST256 - 1} }
        \cup { MaxBlocks * DIGEST256 }

\* the blocks that the requests made of r so far amount to
RECURSIVE BlocksAsked(_, _)
BlocksAsked(r, l) ==
    IF l = 0 THEN 0 ELSE BlocksFor(r.hist[l].n) + BlocksAsked(r, l - 1)

MayCall(r, n) ==
    /\ r.pc = "idle"
    /\ r.calls < MaxCalls
    /\ BlocksAsked(r, Len(r.hist)) + BlocksFor(n) <= MaxBlocks

\* ============================================================== one instance
\* m: one instance and the call in progress on it, statement by statement.
\* g: two instances, each call of random_bytes taken whole.
\* t: a run of selftest.
VARIABLES m, g, t

vars == <<m, g, t>>

NoPair == [i \in {1, 2} |-> Unborn]

NoTest ==
    [ pc |-> "off", a |-> <<>>, b |-> <<>>, c |-> <<>>, d |-> <<>>,
      ones |-> 0, counts |-> [v \in Byte |-> 0], i |-> 0,
      ran |-> <<>>, printed |-> <<>>, ret |-> "none" ]

Init == m = Unborn /\ g = NoPair /\ t = NoTest

Construct ==
    /\ m.pc = "new"
    /\ \E seed_bytes \in SeedInputs \cup {None}, env \in Envs :
          m' = NewRng(seed_bytes, env)
    /\ UNCHANGED <<g, t>>

Call ==
    /\ \E n \in ReqLens : MayCall(m, n) /\ m' = Enter(m, n)
    /\ UNCHANGED <<g, t>>

Do_rb_out == m.pc = "rb_out" /\ m' = rb_out(m) /\ UNCHANGED <<g, t>>
Do_rb_while == m.pc = "rb_while" /\ m' = rb_while(m) /\ UNCHANGED <<g, t>>
Do_rb_for == m.pc = "rb_for" /\ m' = rb_for(m) /\ UNCHANGED <<g, t>>
Do_sv_mask == m.pc = "sv_mask" /\ m' = sv_mask(m) /\ UNCHANGED <<g, t>>
Do_sv_for == m.pc = "sv_for" /\ m' = sv_for(m) /\ UNCHANGED <<g, t>>
Do_st_ctr == m.pc = "st_ctr" /\ m' = st_ctr(m) /\ UNCHANGED <<g, t>>
Do_st_mix == m.pc = "st_mix" /\ m' = st_mix(m) /\ UNCHANGED <<g, t>>
Do_st_jit == m.pc = "st_jit" /\ m' = st_jit(m) /\ UNCHANGED <<g, t>>
Do_st_add == m.pc = "st_add" /\ m' = st_add(m) /\ UNCHANGED <<g, t>>
Do_st_norm == m.pc = "st_norm" /\ m' = st_norm(m) /\ UNCHANGED <<g, t>>
Do_st_ser == m.pc = "st_ser" /\ m' = st_ser(m) /\ UNCHANGED <<g, t>>
Do_st_key == m.pc = "st_key" /\ m' = st_key(m) /\ UNCHANGED <<g, t>>
Do_st_inc == m.pc = "st_inc" /\ m' = st_inc(m) /\ UNCHANGED <<g, t>>
Do_rb_ctr == m.pc = "rb_ctr" /\ m' = rb_ctr(m) /\ UNCHANGED <<g, t>>
Do_rb_blk == m.pc = "rb_blk" /\ m' = rb_blk(m) /\ UNCHANGED <<g, t>>
Do_rb_app == m.pc = "rb_app" /\ m' = rb_app(m) /\ UNCHANGED <<g, t>>
Do_rb_inc == m.pc = "rb_inc" /\ m' = rb_inc(m) /\ UNCHANGED <<g, t>>
Do_rb_ret == m.pc = "rb_ret" /\ m' = rb_ret(m) /\ UNCHANGED <<g, t>>

Next ==
    \/ Construct
    \/ Call
    \/ Do_rb_out
    \/ Do_rb_while
    \/ Do_rb_for
    \/ Do_sv_mask
    \/ Do_sv_for
    \/ Do_st_ctr
    \/ Do_st_mix
    \/ Do_st_jit
    \/ Do_st_add
    \/ Do_st_norm
    \/ Do_st_ser
    \/ Do_st_key
    \/ Do_st_inc
    \/ Do_rb_ctr
    \/ Do_rb_blk
    \/ Do_rb_app
    \/ Do_rb_inc
    \/ Do_rb_ret

Spec == Init /\ [][Next]_vars

\* ------------------------------------------------------ claims on one instance
Returned == m.pc = "idle" /\ m.calls > 0

\* The pipeline as the claims state it: x after the first k of Truth, Purity,
\* Law, Love, Wisdom, Life, Glory.
Order == <<"Truth", "Purity", "Law", "Love", "Wisdom", "Life", "Glory">>

After(x, k) ==
    CASE k = 0 -> x
      [] k = 1 -> f_truth(x)
      [] k = 2 -> f_purity(f_truth(x))
      [] k = 3 -> f_law(f_purity(f_truth(x)))
      [] k = 4 -> f_love(f_law(f_purity(f_truth(x))))
      [] k = 5 -> f_wisdom(f_love(f_law(f_purity(f_truth(x)))))
      [] k = 6 -> f_life(f_wisdom(f_love(f_law(f_purity(f_truth(x))))))
      [] k = 7 -> f_glory(f_life(f_wisdom(f_love(f_law(f_purity(f_truth(x)))))))

\* x with every dimension but 0, 4 and 7 set to zero
Kept(x) == [i \in Dims |-> IF i \in {0, 4, 7} THEN x[i] ELSE 0]

\* C1: every call random_bytes(n) returns exactly n bytes, the empty string for
\* n = 0, and the first n bytes of the accumulated blocks otherwise.
C1_ExactLength ==
    Returned =>
        /\ Len(m.result) = m.n
        /\ m.n = 0 => m.result = <<>>
        /\ \A i \in 1 .. m.n : m.result[i] = m.out[i]

C1_Witness ==
    /\ Returned
    /\ m.n = DIGEST256 + 1
    /\ Len(m.out) = 2 * DIGEST256
    /\ Len(m.result) = DIGEST256 + 1

\* C3: the counter is 0 after construction, every statement leaves it alone or
\* adds exactly 1 to it, the statements that add 1 are the last of _step and the
\* last of a block emission, and a call random_bytes(n) has raised it by
\* 6 * ceil(n / 32) when it returns.
C3_CounterByOne ==
    [][ /\ m'.counter \in {m.counter, m.counter + 1}
        /\ (m'.counter = m.counter + 1) <=> (m.pc \in {"st_inc", "rb_inc"})
        /\ (m'.pc = "idle" /\ m'.calls = 0) => m'.counter = 0
        /\ (m'.pc = "idle" /\ m'.calls > 0) =>
              m'.counter = m'.ctr0 + 6 * ((m'.n + 31) \div 32)
        /\ \A i \in 1 .. Len(m'.trace) : m'.trace[i].counter = m'.ctr0 + i
      ]_vars

C3_Witness ==
    /\ Returned
    /\ m.n = DIGEST256 - 1
    /\ m.ctr0 = 6
    /\ m.counter = 12

\* C4: in a call of random_bytes the events are five advance steps, then a
\* block, repeated; each block is the hash of the state, key and counter left by
\* the fifth step before it; and random_bytes(1) makes five steps and one block
\* and returns the first byte of that block.
C4_FiveStepsPerBlock ==
    (m.pc \notin {"new", "rb_out"}) =>
        /\ \A i \in 1 .. Len(m.trace) :
              (m.trace[i].kind = "block") <=> (i % 6 = 0)
        /\ \A j \in 1 .. (Len(m.out) \div 32) :
              /\ Len(m.trace) >= 6 * j - 1
              /\ SubSeq(m.out, 32 * (j - 1) + 1, 32 * j) =
                    sha256(VectorToBytes(m.trace[6 * j - 1].state)
                           \o m.trace[6 * j - 1].key
                           \o ToBytes(m.trace[6 * j - 1].counter, 16))
        /\ (Returned /\ m.n = 1) =>
              /\ Len(m.trace) = 6
              /\ Len(m.out) = 32
              /\ m.result = <<m.out[1]>>

C4_Witness ==
    /\ Returned
    /\ m.n = 1
    /\ Len(m.trace) = 6
    /\ Len(m.result) = 1

\* C5: the enable mask is true exactly at 0, 4 and 7 from construction on; an
\* advance step starts from the state with the other dimensions zeroed and
\* applies Truth, Purity, Law, Love, Wisdom, Life, Glory once each, in that
\* order, each to the result of the one before.
C5_MaskThenSevenInOrder ==
    (m.pc # "new") =>
        /\ m.enabled = [i \in Dims |-> IF i \in {0, 4, 7} THEN Scale ELSE 0]
        /\ (m.pc = "sv_for") =>
              /\ m.pi \in 0 .. 7
              /\ m.applied = SubSeq(Order, 1, m.pi)
              /\ m.x_masked = After(Kept(m.state), m.pi)
        /\ (m.pc = "st_ctr") =>
              /\ m.applied = Order
              /\ m.state = After(Kept(m.pre.state), 7)

C5_Witness ==
    /\ m.pc = "st_ctr"
    /\ m.applied = Order
    /\ \E i \in Dims \ {0, 4, 7} : m.pre.state[i] # 0
    /\ m.state # m.pre.state

\* C6: an advance step leaves state = renormalised (pipeline(state) + jitter),
\* with the jitter taken from hash(key, counter), then key = hash(old key,
\* serialized new state, counter), then counter + 1, where key and counter in
\* both hashes are the ones the step started with; no other statement replaces
\* the key.
C6_StepResult(p, r) ==
    LET ctr_bytes == ToBytes(p.counter, 16)
        x == After(Kept(p.state), 7)
        jitter == Jitter(sha512(p.key \o ctr_bytes))
        sum == [i \in Dims |-> x[i] + jitter[i]]
        new == Renorm(sum, Sum(VAbs(sum)))
    IN  /\ r.state = new
        /\ r.key = sha256(p.key \o VectorToBytes(new) \o ctr_bytes)
        /\ r.counter = p.counter + 1

C6_StepOrder ==
    [][ /\ (m'.key # m.key) => (m.pc \in {"new", "st_key"})
        /\ (m.pc = "st_inc") => C6_StepResult(m'.pre, m')
      ]_vars

C6_Witness ==
    /\ m.pc = "rb_for"
    /\ m.k = 3
    /\ m.key # m.pre.key
    /\ \E i \in Dims : m.jitter[i] # 0
    /\ m.counter = m.pre.counter + 1

\* C7: a construction from seed bytes reads no entropy source and takes as seed
\* material the hash of the bytes when they are fewer than 32 and the bytes
\* themselves otherwise; a construction without a seed reads the entropy sources.
C7_SeedMaterial ==
    (m.pc # "new") =>
        IF m.seed_bytes = None
        THEN Len(m.reads) > 0
        ELSE /\ m.reads = <<>>
             /\ m.seed_material =
                   IF Len(m.seed_bytes) < 32 THEN sha256(m.seed_bytes) ELSE m.seed_bytes
             /\ (m.calls = 0 /\ m.pc = "idle") =>
                   m.key = sha256(m.seed_material \o TAG_KEY)

C7_Witness ==
    /\ m.pc = "idle"
    /\ m.seed_bytes = <<>>
    /\ Len(m.seed_material) = 32
    /\ m.reads = <<>>

\* ============================================================= two instances
\* Two instances of the class in one process, constructed and called in any
\* order; a call of random_bytes runs from its first statement to its return.
PairSeeds == { ShortSeed, sha256(ShortSeed), Rep(32, 1) }

PairLens ==
    { b * DIGEST256 + d : b \in 0 .. (MaxBlocks - 1), d \in {1, DIGEST256} }

PairConstruct(i) ==
    /\ g[i].pc = "new"
    /\ \E seed_bytes \in PairSeeds, env \in Envs :
          g' = [g EXCEPT ![i] = NewRng(seed_bytes, env)]
    /\ UNCHANGED <<m, t>>

PairCall(i) ==
    /\ \E n \in PairLens :
          /\ MayCall(g[i], n)
          /\ g' = [g EXCEPT ![i] = RandomBytes(g[i], n)]
    /\ UNCHANGED <<m, t>>

PairNext == \E i \in {1, 2} : PairConstruct(i) \/ PairCall(i)

SpecPair == Init /\ [][PairNext]_vars

\* ----------------------------------------------------- claims on two instances
Core(r) == [state |-> r.state, key |-> r.key, counter |-> r.counter]

\* the first k requests made on a and on b are the same
SameRequests(a, b, k) ==
    /\ k <= Len(a.hist)
    /\ k <= Len(b.hist)
    /\ \A l \in 1 .. k : a.hist[l].n = b.hist[l].n

\* C2: two instances constructed from the same seed bytes start with the same
\* state, key and counter, and for as long as the same lengths are requested of
\* them every call goes through the same (state, key, counter) after each step
\* and block, returns the same bytes and leaves the same state, key and counter.
C2_SameSeedSameStream ==
    \A i, j \in {1, 2} :
        (/\ g[i].pc = "idle"
         /\ g[j].pc = "idle"
         /\ g[i].seed_bytes # None
         /\ g[i].seed_bytes = g[j].seed_bytes) =>
            /\ \A k \in 1 .. Len(g[i].hist) :
                  SameRequests(g[i], g[j], k) => g[i].hist[k] = g[j].hist[k]
            /\ (Len(g[i].hist) = Len(g[j].hist)
                    /\ SameRequests(g[i], g[j], Len(g[i].hist))) =>
                  Core(g[i]) = Core(g[j])

C2_Witness ==
    /\ g[1].pc = "idle"
    /\ g[2].pc = "idle"
    /\ g[1].seed_bytes = ShortSeed
    /\ g[2].seed_bytes = ShortSeed
    /\ Len(g[1].hist) = 1
    /\ Len(g[2].hist) = 1
    /\ g[1].hist[1].n = 2 * DIGEST256
    /\ g[2].hist[1].n = 2 * DIGEST256
    /\ Len(g[1].hist[1].result) = 2 * DIGEST256
    /\ g[1].hist[1].result = g[2].hist[1].result

\* C9: from the same starting point, a request for a bytes, a a multiple of 32,
\* followed by a request for b bytes returns the same bytes as one request for
\* a + b bytes, and leaves the same state, key and counter.
C9_SplitAtBlockBoundary ==
    \A i, j \in {1, 2} :
        LET k == Len(g[j].hist)
        IN  (/\ g[i].pc = "idle"
             /\ g[j].pc = "idle"
             /\ g[i].seed_material = g[j].seed_material
             /\ k >= 1
             /\ Len(g[i].hist) = k + 1
             /\ SameRequests(g[i], g[j], k - 1)
             /\ g[i].hist[k].n % 32 = 0
             /\ g[j].hist[k].n = g[i].hist[k].n + g[i].hist[k + 1].n) =>
                /\ g[i].hist[k].result \o g[i].hist[k + 1].result = g[j].hist[k].result
                /\ Core(g[i]) = Core(g[j])

C9_Witness ==
    /\ g[1].pc = "idle"
    /\ g[2].pc = "idle"
    /\ g[1].seed_material = g[2].seed_material
    /\ Len(g[1].hist) = 2
    /\ Len(g[2].hist) = 1
    /\ g[1].hist[1].n = DIGEST256
    /\ g[1].hist[2].n = 1
    /\ g[2].hist[1].n = DIGEST256 + 1
    /\ g[1].hist[1].result \o g[1].hist[2].result = g[2].hist[1].result
    /\ g[1].counter = 12

\* C10: an instance seeded with fewer than 32 bytes S and an instance seeded
\* with the 32 bytes hash(S) start with the same key, state and counter, and
\* return the same bytes for as long as the same lengths are requested of them.
C10_SeedAndItsHashCoincide ==
    \A i, j \in {1, 2} :
        (/\ g[i].pc = "idle"
         /\ g[j].pc = "idle"
         /\ g[i].seed_bytes # None
         /\ Len(g[i].seed_bytes) < 32
         /\ g[j].seed_bytes = sha256(g[i].seed_bytes)) =>
            /\ g[i].seed_bytes # g[j].seed_bytes
            /\ (g[i].calls = 0 /\ g[j].calls = 0) => Core(g[i]) = Core(g[j])
            /\ \A k \in 1 .. Len(g[i].hist) :
                  SameRequests(g[i], g[j], k) =>
                      g[i].hist[k].result = g[j].hist[k].result
            /\ (Len(g[i].hist) = Len(g[j].hist)
                    /\ SameRequests(g[i], g[j], Len(g[i].hist))) =>
                  Core(g[i]) = Core(g[j])

C10_Witness ==
    /\ g[1].pc = "idle"
    /\ g[2].pc = "idle"
    /\ g[1].seed_bytes = ShortSeed
    /\ g[2].seed_bytes = sha256(ShortSeed)
    /\ Len(g[1].hist) = 2
    /\ Len(g[2].hist) = 2
    /\ g[1].hist[1].n = 1
    /\ g[2].hist[1].n = 1
    /\ g[1].hist[2].n = DIGEST256
    /\ g[2].hist[2].n = DIGEST256
    /\ g[1].hist[2].result = g[2].hist[2].result

\* ===================================================================== selftest
\* A run of selftest, one action per check.  The four 64-byte outputs are
\* computed by the generator.  The 16384-byte and the 65536-byte samples are not
\* computed: their statistics (the number of set bits, the count of each byte
\* value) are taken from cases on both sides of every threshold.
SELFTEST_SEED == sha256(<<112, 97, 114, 97, 99, 108, 101, 116, 105, 99, 95, 115, 101, 108, 102, 116, 101, 115, 116, 95, 115, 101, 101, 100>>)

SAMPLE_BITS == 131072
FREQ_BYTES == 65536

\* what os.urandom(32) may return
URandoms == { e.urandom : e \in Envs }

\* numbers of set bits among SAMPLE_BITS bits
OnesCases == { 64225, 64226, 65536, 66846, 66847 }

\* Byte counts adding up to FREQ_BYTES: every value 256 times, but value v
\* cnt times and the four values after v sharing the difference.
Skew(v, cnt) ==
    LET delta == cnt - 256
        q == delta \div 4
        rem == delta - 4 * q
    IN  [w \in Byte |->
            IF w = v THEN cnt
            ELSE IF w = (v + 1) % 256 THEN 256 - q - rem
            ELSE IF w \in {(v + 2) % 256, (v + 3) % 256, (v + 4) % 256} THEN 256 - q
            ELSE 256]

\* Two values out of range: 7 too rare, 200 too frequent.
TwoBad ==
    [w \in Byte |->
        IF w = 7 THEN 100
        ELSE IF w = 200 THEN 668
        ELSE IF w \in {8, 9, 10, 11} THEN 192
        ELSE 256]

CountsCases ==
    { Skew(0, 256), Skew(0, 102), Skew(7, 103), Skew(7, 666), Skew(255, 665),
      Skew(255, 102), TwoBad }

Fail(s, message) ==
    [s EXCEPT !.printed = Append(@, message), !.ret = FALSE, !.pc = "done"]

\* lines 149-156
ts_det(s, rng1, rng2) ==
    LET a == RandomBytes(rng1, 64).result
        b == RandomBytes(rng2, 64).result
        s2 == [s EXCEPT !.a = a, !.b = b, !.ran = Append(@, "determinism")]
    IN  IF a # b
        THEN Fail(s2, <<"SELFTEST FAIL: determinism check failed">>)
        ELSE [s2 EXCEPT !.pc = "dist"]

\* (mutation) the distinctness failure reported without returning
ts_dist_goes_on(s, rng3, rng4) ==
    LET c == RandomBytes(rng3, 64).result
        d == RandomBytes(rng4, 64).result
        s2 == [s EXCEPT !.c = c, !.d = d, !.ran = Append(@, "distinctness")]
    IN  IF c = d
        THEN [s2 EXCEPT !.printed =
                  Append(@, <<"SELFTEST FAIL: distinct seeds produced identical streams">>),
                        !.pc = "mono"]
        ELSE [s2 EXCEPT !.pc = "mono"]

\* lines 157-163
ts_dist(s, rng3, rng4) ==
    LET c == RandomBytes(rng3, 64).result
        d == RandomBytes(rng4, 64).result
        s2 == [s EXCEPT !.c = c, !.d = d, !.ran = Append(@, "distinctness")]
    IN  IF c = d
        THEN Fail(s2, <<"SELFTEST FAIL: distinct seeds produced identical streams">>)
        ELSE [s2 EXCEPT !.pc = "mono"]

\* lines 164-174: 0.49 <= ones / sample_bits <= 0.51, in hundredths
ts_mono(s, ones) ==
    LET sample_bits == SAMPLE_BITS
        s2 == [s EXCEPT !.ones = ones, !.ran = Append(@, "monobit")]
    IN  IF ~(49 * sample_bits <= 100 * ones /\ 100 * ones <= 51 * sample_bits)
        THEN Fail(s2, <<"SELFTEST FAIL: monobit frequency out of range", ones>>)
        ELSE [s2 EXCEPT !.pc = "freq"]

\* lines 175-181
ts_freq(s, counts) ==
    [s EXCEPT !.counts = counts, !.i = 0, !.ran = Append(@, "bytes"), !.pc = "freq_loop"]

\* lines 182-187: low = expected * 0.4 and high = expected * 2.6, in tenths
ts_loop(s) ==
    LET expected == FREQ_BYTES \div 256
        low10 == expected * 4
        high10 == expected * 26
    IN  IF s.i < 256
        THEN LET ccount == s.counts[s.i]
             IN  IF 10 * ccount < low10 \/ 10 * ccount > high10
                 THEN Fail(s, <<"SELFTEST FAIL: byte frequency out of range", s.i, ccount>>)
                 ELSE [s EXCEPT !.i = @ + 1]
        ELSE [s EXCEPT !.printed = Append(@, <<"SELFTEST PASS">>), !.ret = TRUE,
                       !.pc = "done"]

T_Start == t.pc = "off" /\ t' = [t EXCEPT !.pc = "det"] /\ UNCHANGED <<m, g>>

T_Determinism ==
    /\ t.pc = "det"
    /\ \E env1, env2 \in Envs :
          t' = ts_det(t, NewRng(SELFTEST_SEED, env1), NewRng(SELFTEST_SEED, env2))
    /\ UNCHANGED <<m, g>>

T_Distinctness ==
    /\ t.pc = "dist"
    /\ \E u3, u4 \in URandoms, env \in Envs :
          t' = ts_dist(t, NewRng(u3, env), NewRng(u4, env))
    /\ UNCHANGED <<m, g>>

T_Monobit ==
    /\ t.pc = "mono"
    /\ \E ones \in OnesCases : t' = ts_mono(t, ones)
    /\ UNCHANGED <<m, g>>

T_Bytes ==
    /\ t.pc = "freq"
    /\ \E counts \in CountsCases : t' = ts_freq(t, counts)
    /\ UNCHANGED <<m, g>>

T_Loop == t.pc = "freq_loop" /\ t' = ts_loop(t) /\ UNCHANGED <<m, g>>

TestNext ==
    \/ T_Start
    \/ T_Determinism
    \/ T_Distinctness
    \/ T_Monobit
    \/ T_Bytes
    \/ T_Loop

SpecSelftest == Init /\ [][TestNext]_vars

\* ------------------------------------------------------------ claim on selftest
Checks == <<"determinism", "distinctness", "monobit", "bytes">>

\* the byte values whose count is below 0.4 or above 2.6 times 256
OutOfRange(counts) == { v \in Byte : 10 * counts[v] < 1024 \/ 10 * counts[v] > 6656 }

\* C8: selftest runs determinism, distinctness, monobit balance, byte balance
\* in this order; it returns True exactly when all four pass; at the first check
\* that fails it prints that check's diagnostic, returns False and runs no later
\* check.
C8_FirstFailureStops ==
    (t.pc = "done") =>
        IF t.a # t.b
        THEN /\ t.ret = FALSE
             /\ t.ran = SubSeq(Checks, 1, 1)
             /\ t.printed = << <<"SELFTEST FAIL: determinism check failed">> >>
        ELSE IF t.c = t.d
        THEN /\ t.ret = FALSE
             /\ t.ran = SubSeq(Checks, 1, 2)
             /\ t.printed =
                   << <<"SELFTEST FAIL: distinct seeds produced identical streams">> >>
        ELSE IF 100 * t.ones < 49 * 131072 \/ 100 * t.ones > 51 * 131072
        THEN /\ t.ret = FALSE
             /\ t.ran = SubSeq(Checks, 1, 3)
             /\ t.printed =
                   << <<"SELFTEST FAIL: monobit frequency out of range", t.ones>> >>
        ELSE IF OutOfRange(t.counts) # {}
        THEN LET first == CHOOSE v \in OutOfRange(t.counts) :
                              \A w \in OutOfRange(t.counts) : v <= w
             IN  /\ t.ret = FALSE
                 /\ t.ran = Checks
                 /\ t.printed =
                       << <<"SELFTEST FAIL: byte frequency out of range",
                            first, t.counts[first]>> >>
        ELSE /\ t.ret = TRUE
             /\ t.ran = Checks
             /\ t.printed = << <<"SELFTEST PASS">> >>

C8_Witness ==
    /\ t.pc = "done"
    /\ t.ret = FALSE
    /\ t.a = t.b
    /\ t.c # t.d
    /\ t.ones = 66847
    /\ t.ran = <<"determinism", "distinctness", "monobit">>
    /\ Len(t.printed) = 1
====
